---------------------------- MODULE Spec2Model ----------------------------
(***************************************************************************)
(* A model of src/src/modules.py (GEARP): the graph-construction functions *)
(* autoencoder, attentional_fm, centroid, gatnet, gat_attn_head,           *)
(* get_embeddings and centroid_corr, written against TensorFlow 1.14.      *)
(*                                                                         *)
(* The program's only mutable state is the TensorFlow variable store       *)
(* (tf.get_variable under reuse=tf.AUTO_REUSE).  Everything else is a pure *)
(* function from tensors to tensors; a call of such a function is an       *)
(* action that records its arguments and results in `ret`.                 *)
(*                                                                         *)
(* Numbers.  Tensor entries are integers.  A softmax weight is the exact   *)
(* fraction <<num, den>>; the exponential is taken to base 2 on logits     *)
(* shifted by their minimum (softmax is shift invariant, and only          *)
(* positivity and the normalising sum matter below).  A square root is     *)
(* kept exact by carrying the square of the value.                         *)
(***************************************************************************)
EXTENDS Integers, Sequences, FiniteSets

VARIABLES
    store,      \* the variable store: full variable name -> parameter
    tensors,    \* the graph tensors get_embeddings has returned so far
    used,       \* the (name_scope, var_name) keys centroid was called with
    ret         \* the last operation: its arguments and what it produced

vars == <<store, tensors, used, ret>>

(***************************************************************************)
(* Bounds of the model.                                                    *)
(***************************************************************************)
MaxVocab == 2       \* vocab_size ranges over 0..MaxVocab
MaxUnits == 2       \* num_units ranges over 1..MaxUnits
MaxCentroid == 2    \* n_centroid ranges over 1..MaxCentroid
MaxLayers == 3      \* len(layers) ranges over 0..MaxLayers
MaxWidth == 3       \* a layer width / input width ranges over 1..MaxWidth
MaxFields == 3      \* attr_size ranges over 0..MaxFields
MaxBatch == 2       \* batch size ranges over 1..MaxBatch
MaxNodes == 3       \* number of graph nodes ranges over 1..MaxNodes
MaxHeads == 2       \* n_heads ranges over 1..MaxHeads

Vals == {0, 1}                  \* entries of a stored parameter
Scopes == {"afm"}               \* name scope of the embedding table
CentroidKeys == {<<"user", "interest">>, <<"user", "category">>,
                 <<"item", "category">>}
CentroidEmbSizes == {1}         \* emb_size of a centroid call
InputDims == {1, 2}             \* width of centroid's input_features
CentroidBatches == {2}          \* batch size of centroid's input_features
EmbeddingKeys == {<<s, "embedding_matrix">> : s \in Scopes}
Keys == EmbeddingKeys \cup CentroidKeys

Matrices(r, c) == [1..r -> [1..c -> Vals]]
Zeros(c) == [j \in 1..c |-> 0]

(***************************************************************************)
(* The variable store.                                                     *)
(***************************************************************************)
NoVar == [live |-> FALSE, shape |-> <<0, 0>>, val |-> <<>>]
NoRet == [op |-> "none"]

Init ==
    /\ store = [k \in Keys |-> NoVar]
    /\ tensors = {}
    /\ used = {}
    /\ ret = NoRet

\* A get_variable that ignores the store and initialises a parameter anew on
\* every call.
GetVariableReinit(st, key, shape, init) ==
    [status |-> "ok", created |-> TRUE,
     store |-> [st EXCEPT ![key] = [live |-> TRUE, shape |-> shape, val |-> init]]]

\* tf.get_variable(name, shape=shape) inside tf.variable_scope(scope,
\* reuse=tf.AUTO_REUSE): the variable of that full name is created (with the
\* initializer's value `init`) when the store has none, handed back as it is
\* when the store has one of the same shape, and a ValueError otherwise.
GetVariable(st, key, shape, init) ==
    IF ~st[key].live
    THEN [status |-> "ok", created |-> TRUE,
          store |-> [st EXCEPT ![key] =
                        [live |-> TRUE, shape |-> shape, val |-> init]]]
    ELSE IF st[key].shape = shape
         THEN [status |-> "ok", created |-> FALSE, store |-> st]
         ELSE [status |-> "ValueError", created |-> FALSE, store |-> st]

\* The values the initializer may produce for a variable of this shape; it
\* runs only when the variable is created.
InitValues(st, key, shape) ==
    IF st[key].live THEN {st[key].val} ELSE Matrices(shape[1], shape[2])

\* The external optimizer (or a checkpoint restore) writes new values into a
\* stored parameter; its shape stays.
Optimizer(key) ==
    /\ store[key].live
    /\ \E v \in Matrices(store[key].shape[1], store[key].shape[2]) :
          store' = [store EXCEPT ![key].val = v]
    /\ ret' = [op |-> "optimizer", key |-> key]
    /\ UNCHANGED <<tensors, used>>

(***************************************************************************)
(* get_embeddings                                                          *)
(***************************************************************************)
\* embeddings[1:, :]
SliceFromRow1(m) == SubSeq(m, 2, Len(m))

\* The tensor without the zero row written over row 0.
EmbeddingsValueNoPad(st, t) == st[t.key].val

\* The value of the tensor get_embeddings returned, evaluated against the
\* store: tf.concat((tf.zeros([1, num_units]), embeddings[1:, :]), 0) with
\* zero_pad, the variable itself without.
EmbeddingsValue(st, t) ==
    IF t.zero_pad
    THEN <<Zeros(st[t.key].shape[2])>> \o SliceFromRow1(st[t.key].val)
    ELSE st[t.key].val

get_embeddings(name_scope, vocab_size, num_units, zero_pad) ==
    LET key == <<name_scope, "embedding_matrix">> IN
    \E init \in InitValues(store, key, <<vocab_size, num_units>>) :
       LET g == GetVariable(store, key, <<vocab_size, num_units>>, init) IN
       /\ store' = g.store
       /\ tensors' = IF g.status = "ok"
                     THEN tensors \cup {[key |-> key, zero_pad |-> zero_pad]}
                     ELSE tensors
       /\ ret' = [op |-> "get_embeddings", key |-> key,
                  vocab_size |-> vocab_size, num_units |-> num_units,
                  zero_pad |-> zero_pad, status |-> g.status,
                  created |-> g.created]
       /\ UNCHANGED used

NextEmb ==
    \/ \E s \in Scopes, v \in 0..MaxVocab, d \in 1..MaxUnits, z \in BOOLEAN :
          get_embeddings(s, v, d, z)
    \/ \E k \in EmbeddingKeys : Optimizer(k)

SpecEmb == Init /\ [][NextEmb]_vars


\* C3: after any sequence of get_embeddings calls and optimizer writes, every
\* tensor a zero_pad=True call returned has the all-zero vector as its row 0,
\* whatever the stored parameter holds.
C3_ZeroPadRowIsZero ==
    \A t \in tensors :
        t.zero_pad =>
            /\ Len(EmbeddingsValue(store, t)) >= 1
            /\ EmbeddingsValue(store, t)[1] = Zeros(store[t.key].shape[2])

\* C3's case: a padded and an unpadded tensor over the same parameter, whose
\* stored row 0 the optimizer has just made non-zero.
C3_Witness ==
    /\ ret.op = "optimizer"
    /\ store[ret.key].shape[1] >= 2
    /\ store[ret.key].val[1] # Zeros(store[ret.key].shape[2])
    /\ [key |-> ret.key, zero_pad |-> TRUE] \in tensors
    /\ [key |-> ret.key, zero_pad |-> FALSE] \in tensors

\* C7: a zero_pad=True call with vocabulary size V returns V+1 rows (one zero
\* padding row plus V trainable rows).
C7_PaddedTableHasVPlus1Rows ==
    \A t \in tensors :
        t.zero_pad =>
            Len(EmbeddingsValue(store, t)) = store[t.key].shape[1] + 1

(***************************************************************************)
(* centroid                                                                *)
(***************************************************************************)
\* tf.matmul(a, b, transpose_b=True) on static shapes (rank 2): the inner
\* dimensions must agree.  <<-1>> stands for "no tensor: the build raised".
Err == <<-1>>
IsErr(s) == s = Err

MatMulT(a, b) ==
    IF IsErr(a) \/ IsErr(b) \/ Len(a) # 2 \/ Len(b) # 2 THEN Err
    ELSE IF a[2] # b[2] THEN Err ELSE <<a[1], b[1]>>

MatMul(a, b) ==
    IF IsErr(a) \/ IsErr(b) \/ Len(a) # 2 \/ Len(b) # 2 THEN Err
    ELSE IF a[2] # b[1] THEN Err ELSE <<a[1], b[2]>>

\* centroid(input_features of shape (batch, input_dim), n_centroid, emb_size,
\* tao, name_scope, var_name): the parameter is fetched first; the logits
\* (b, c) and the pooled output (b, d) are built from it afterwards.
centroid(name_scope, var_name, n_centroid, emb_size, batch, input_dim) ==
    LET key == <<name_scope, var_name>> IN
    \E init \in InitValues(store, key, <<n_centroid, emb_size>>) :
       LET g == GetVariable(store, key, <<n_centroid, emb_size>>, init)
           ft_mul == IF g.status = "ok"
                     THEN MatMulT(<<batch, input_dim>>, <<n_centroid, emb_size>>)
                     ELSE Err
           output == MatMul(ft_mul, <<n_centroid, emb_size>>)
       IN
       /\ store' = g.store
       /\ used' = used \cup {key}
       /\ ret' = [op |-> "centroid", key |-> key,
                  shape |-> <<n_centroid, emb_size>>,
                  var_status |-> g.status, created |-> g.created,
                  logits |-> ft_mul, output |-> output]
       /\ UNCHANGED tensors

NextCentroid ==
    \/ \E k \in CentroidKeys, c \in 1..MaxCentroid, d \in CentroidEmbSizes,
          b \in CentroidBatches, i \in InputDims :
          centroid(k[1], k[2], c, d, b, i)
    \/ \E k \in CentroidKeys : Optimizer(k)

SpecCentroid == Init /\ [][NextCentroid]_vars

\* C4: the store holds a centroid parameter for exactly the keys centroid was
\* called with; the first call for a key creates it with the requested shape;
\* a later call with the same key and shape gets that parameter and leaves
\* the whole store (its values included) as it was; no call touches another
\* key's parameter.
C4_CentroidCreatedOnceAndReused ==
    /\ [](\A k \in CentroidKeys : store[k].live <=> k \in used)
    /\ [][ret'.op = "centroid" =>
            /\ \A k \in Keys \ {ret'.key} : store'[k] = store[k]
            /\ ~store[ret'.key].live =>
                  /\ ret'.created /\ ret'.var_status = "ok"
                  /\ store'[ret'.key].live
                  /\ store'[ret'.key].shape = ret'.shape
            /\ (store[ret'.key].live /\ store[ret'.key].shape = ret'.shape) =>
                  /\ ~ret'.created /\ ret'.var_status = "ok"
                  /\ store' = store
            /\ store[ret'.key].live => store' = store]_vars

\* C4's case: a call that re-acquired an existing parameter (nothing created)
\* while several keys are in the store and the parameter holds a non-zero
\* value.
C4_Witness ==
    /\ ret.op = "centroid"
    /\ ret.var_status = "ok"
    /\ ~ret.created
    /\ Cardinality(used) >= 2
    /\ store[ret.key].val # [i \in 1..ret.shape[1] |-> Zeros(ret.shape[2])]

(***************************************************************************)
(* autoencoder                                                             *)
(***************************************************************************)
\* The static shape tf.layers.dense(inputs, units) builds: the last
\* dimension becomes `units`.
Dense(s, units) ==
    IF IsErr(s) \/ Len(s) < 2 THEN Err ELSE [s EXCEPT ![Len(s)] = units]

\* The shape of a + b (or a - b, a * b) under broadcasting: the shapes are
\* aligned at their last dimension, and two aligned dimensions must be equal
\* or one of them 1.
BroadcastDim(a, b, i) ==
    LET da == IF i <= Len(a) THEN a[Len(a) + 1 - i] ELSE 1
        db == IF i <= Len(b) THEN b[Len(b) + 1 - i] ELSE 1
    IN IF da = db \/ db = 1 THEN da ELSE IF da = 1 THEN db ELSE -1

Broadcast(a, b) ==
    LET n == IF Len(a) >= Len(b) THEN Len(a) ELSE Len(b)
        r == [i \in 1..n |-> BroadcastDim(a, b, n + 1 - i)]
    IN IF IsErr(a) \/ IsErr(b) THEN Err
       ELSE IF \E i \in 1..n : r[i] = -1 THEN Err ELSE r

\* for i in range(len(layers)): dense(units=layers[i], activation=relu,
\* name="usc_enc_{i}")
EncoderLayers(layers) ==
    [p \in 1..Len(layers) |->
        [name |-> <<"usc_enc", p - 1>>, units |-> layers[p],
         activation |-> "relu"]]

\* layers[::-1]
RevLayers(layers) == [p \in 1..Len(layers) |-> layers[Len(layers) + 1 - p]]

\* A decoder loop that starts at index 0 and so repeats the innermost width.
DecoderLayersFromZero(layers) ==
    [p \in 1..Len(layers) |->
        [name |-> <<"usc_dec", p - 1>>, units |-> RevLayers(layers)[p],
         activation |-> "relu"]]

\* for i in range(1, len(rev_layers)): dense(units=rev_layers[i],
\* activation=relu, name="usc_dec_{i}")
DecoderLayers(layers) ==
    [p \in 1..(Len(layers) - 1) |->
        [name |-> <<"usc_dec", p>>, units |-> RevLayers(layers)[p + 1],
         activation |-> "relu"]]

\* dense(units=restore_dim, activation=None, name="usc_reconstruct_layer")
ReconstructLayer(restore_dim) ==
    [name |-> <<"usc_reconstruct_layer", 0>>, units |-> restore_dim,
     activation |-> "none"]

RECURSIVE ApplyDense(_, _)
ApplyDense(s, ls) ==
    IF ls = <<>> THEN s ELSE ApplyDense(Dense(s, Head(ls).units), Tail(ls))

\* autoencoder(input_features of shape (batch, input_dim), layers), on a
\* fresh graph.
autoencoder(batch, input_dim, layers) ==
    LET input_features == <<batch, input_dim>>
        restore_dim == input_features[2]
        enc == EncoderLayers(layers)
        hidden_feature == ApplyDense(input_features, enc)
        dec == DecoderLayers(layers)
        features == ApplyDense(hidden_feature, dec)
        restore == Dense(features, restore_dim)
    IN
    /\ ret' = [op |-> "autoencoder", input_features |-> input_features,
               layers |-> layers,
               dense |-> enc \o dec \o <<ReconstructLayer(restore_dim)>>,
               hidden_feature |-> hidden_feature, restore |-> restore,
               diff |-> Broadcast(input_features, restore)]
    /\ UNCHANGED <<store, tensors, used>>

LayerLists == UNION {[1..n -> 1..MaxWidth] : n \in 0..MaxLayers}

\* The caller's arguments, drawn before the call.
InitAE ==
    /\ store = [k \in Keys |-> NoVar]
    /\ tensors = {}
    /\ used = {}
    /\ \E b \in 1..MaxBatch, w \in 1..MaxWidth, layers \in LayerLists :
          ret = [op |-> "args", batch |-> b, input_dim |-> w, layers |-> layers]

NextAE ==
    /\ ret.op = "args"
    /\ autoencoder(ret.batch, ret.input_dim, ret.layers)

SpecAE == InitAE /\ [][NextAE]_vars

\* C5: the reconstruction fed into the loss has the input's width, and the
\* dense layers applied are layers[0..k-1] with ReLU, then the reversed list
\* without its first element with ReLU, then one linear layer of width
\* input_dim; this for every list, the empty and the one-element lists
\* included.
C5_ReconstructionHasInputWidth ==
    ret.op = "autoencoder" =>
        LET k == Len(ret.layers)
            w == ret.input_features[2]
        IN
        /\ ret.restore = ret.input_features
        /\ ret.diff = ret.input_features
        /\ Len(ret.dense) = (IF k = 0 THEN 1 ELSE 2 * k)
        /\ \A p \in 1..k :
              /\ ret.dense[p].units = ret.layers[p]
              /\ ret.dense[p].activation = "relu"
        /\ \A q \in 1..(k - 1) :
              /\ ret.dense[k + q].units = ret.layers[k - q]
              /\ ret.dense[k + q].activation = "relu"
        /\ ret.dense[Len(ret.dense)].units = w
        /\ ret.dense[Len(ret.dense)].activation = "none"

\* C5's case: a call with at least two hidden layers whose widths all differ
\* from the input width.
C5_Witness ==
    /\ ret.op = "autoencoder"
    /\ Len(ret.layers) >= 2
    /\ ret.layers[1] # ret.layers[Len(ret.layers)]
    /\ \A p \in 1..Len(ret.layers) : ret.layers[p] # ret.input_features[2]
    /\ ret.hidden_feature[2] # ret.input_features[2]

(***************************************************************************)
(* attentional_fm                                                          *)
(*                                                                         *)
(* Lines 103-130 act on every sample of the batch independently, so the    *)
(* tensors below are one sample's slice: uattr_emb is (k, d), the products *)
(* (pairs, d), attn_relu and attn_out (pairs, 1).  uattr_emb is whatever   *)
(* the embedding lookup of lines 90-92 produced.                           *)
(***************************************************************************)
FeatVals == {-1, 0, 1}      \* entries of the looked-up embeddings
AfmEmbDims == {1, 2}        \* emb_dim
AfmHidDims == {1}           \* hid_rep_dim
WeightVals == {-1, 1}       \* entries of attention_W and attention_p
BiasVals == {1}             \* entries of attention_b

RECURSIVE SumSeq(_)
SumSeq(v) == IF v = <<>> THEN 0 ELSE Head(v) + SumSeq(Tail(v))

RECURSIVE Pow2(_)
Pow2(n) == IF n <= 0 THEN 1 ELSE 2 * Pow2(n - 1)

MinOf(v) == CHOOSE x \in {v[i] : i \in 1..Len(v)} :
                \A i \in 1..Len(v) : x <= v[i]

\* tf.nn.softmax over one vector: weight i is exp(v[i]) / sum_j exp(v[j]),
\* the exact fraction <<num, den>>.
Softmax(v) ==
    LET e == [i \in 1..Len(v) |-> Pow2(v[i] - MinOf(v))]
    IN [i \in 1..Len(v) |-> <<e[i], SumSeq(e)>>]

\* tf.nn.softmax(t) with its default axis=-1 on a rank-2 slice: every inner
\* vector t[q] is normalised on its own.
SoftmaxLastAxis(t) == [q \in 1..Len(t) |-> Softmax(t[q])]

\* Exact fractions.
FracAdd(x, y) == <<x[1] * y[2] + y[1] * x[2], x[2] * y[2]>>
FracIsOne(x) == x[2] # 0 /\ x[1] = x[2]

RECURSIVE FracSum(_)
FracSum(v) == IF v = <<>> THEN <<0, 1>> ELSE FracAdd(Head(v), FracSum(Tail(v)))

Relu(x) == IF x > 0 THEN x ELSE 0

\* for j in range(i+1, attr_size): append the pair (i, j)
RECURSIVE InnerLoop(_, _, _)
InnerLoop(i, j, attr_size) ==
    IF j >= attr_size THEN <<>>
    ELSE <<<<i, j>>>> \o InnerLoop(i, j + 1, attr_size)

\* The loops with the inner one starting at j = i: the pair (i, i) included.
RECURSIVE OuterLoopWithSelfPairs(_, _)
OuterLoopWithSelfPairs(i, attr_size) ==
    IF i >= attr_size THEN <<>>
    ELSE InnerLoop(i, i, attr_size) \o OuterLoopWithSelfPairs(i + 1, attr_size)

\* for i in range(0, attr_size): for j in range(i+1, attr_size): ...
RECURSIVE OuterLoop(_, _)
OuterLoop(i, attr_size) ==
    IF i >= attr_size THEN <<>>
    ELSE InnerLoop(i, i + 1, attr_size) \o OuterLoop(i + 1, attr_size)

\* tf.multiply(uattr_emb[:, i, :], uattr_emb[:, j, :]) for each pair in turn
ElementWiseProdList(uattr_emb, pairs, emb_dim) ==
    [q \in 1..Len(pairs) |->
        [c \in 1..emb_dim |->
            uattr_emb[pairs[q][1] + 1][c] * uattr_emb[pairs[q][2] + 1][c]]]

\* attr_size * (attr_size - 1) / 2; the product of two consecutive integers
\* is even, so the quotient is the same number under either division.
NumInteractions(attr_size) == (attr_size * (attr_size - 1)) \div 2

\* matmul(reshape(element_wise_prod, [-1, emb_dim]), attn_W)
AttnMul(prod, attn_W, emb_dim, hid_rep_dim) ==
    [q \in 1..Len(prod) |->
        [c \in 1..hid_rep_dim |->
            SumSeq([a \in 1..emb_dim |-> prod[q][a] * attn_W[a][c]])]]

\* reduce_sum(attn_p * relu(attn_mul + attn_b), axis=2, keepdims=True)
AttnRelu(attn_mul, attn_p, attn_b, hid_rep_dim) ==
    [q \in 1..Len(attn_mul) |->
        <<SumSeq([c \in 1..hid_rep_dim |->
                    attn_p[c] * Relu(attn_mul[q][c] + attn_b[c])])>>]

\* reduce_sum(attn_out * element_wise_prod, axis=1): attn_out[q] has one
\* entry, broadcast over the emb_dim entries of product q.
Afm(attn_out, prod, emb_dim) ==
    [c \in 1..emb_dim |->
        FracSum([q \in 1..Len(prod) |->
                    <<attn_out[q][1][1] * prod[q][c], attn_out[q][1][2]>>])]

\* tf.squeeze(attn_out): the trailing axis of size 1 goes.
Squeeze(attn_out) == [q \in 1..Len(attn_out) |-> attn_out[q][1]]

attentional_fm(attr_size, emb_dim, hid_rep_dim, uattr_emb, attn_W, attn_p, attn_b) ==
    LET pairs == OuterLoop(0, attr_size)
        element_wise_prod_list == ElementWiseProdList(uattr_emb, pairs, emb_dim)
        num_interactions == NumInteractions(attr_size)
        attn_mul == AttnMul(element_wise_prod_list, attn_W, emb_dim, hid_rep_dim)
        attn_relu == AttnRelu(attn_mul, attn_p, attn_b, hid_rep_dim)
        attn_out == SoftmaxLastAxis(attn_relu)
    IN
    /\ ret' = IF element_wise_prod_list = <<>>
              THEN \* tf.stack of an empty list raises
                   [op |-> "attentional_fm", status |-> "error",
                    attr_size |-> attr_size, uattr_emb |-> uattr_emb,
                    pairs |-> pairs,
                    element_wise_prod_list |-> element_wise_prod_list,
                    num_interactions |-> num_interactions]
              ELSE [op |-> "attentional_fm", status |-> "ok",
                    attr_size |-> attr_size, uattr_emb |-> uattr_emb,
                    pairs |-> pairs,
                    element_wise_prod_list |-> element_wise_prod_list,
                    num_interactions |-> num_interactions,
                    attn_relu |-> attn_relu,
                    afm |-> Afm(attn_out, element_wise_prod_list, emb_dim),
                    attn_out |-> Squeeze(attn_out)]
    /\ UNCHANGED <<store, tensors, used>>

\* The caller's arguments and the parameters' values, drawn before the call.
InitAFM ==
    /\ store = [k \in Keys |-> NoVar]
    /\ tensors = {}
    /\ used = {}
    /\ \E k \in 0..MaxFields, d \in AfmEmbDims, h \in AfmHidDims :
         \E emb \in [1..k -> [1..d -> FeatVals]],
            w \in [1..d -> [1..h -> WeightVals]],
            p \in [1..h -> WeightVals], b \in [1..h -> BiasVals] :
               ret = [op |-> "args", attr_size |-> k, emb_dim |-> d,
                      hid_rep_dim |-> h, uattr_emb |-> emb, attn_W |-> w,
                      attn_p |-> p, attn_b |-> b]

NextAFM ==
    /\ ret.op = "args"
    /\ attentional_fm(ret.attr_size, ret.emb_dim, ret.hid_rep_dim,
                      ret.uattr_emb, ret.attn_W, ret.attn_p, ret.attn_b)

SpecAFM == InitAFM /\ [][NextAFM]_vars

\* C1: for every field count k >= 2 and every sample, the attention weights
\* returned over the k(k-1)/2 pairs sum to 1 across the pairs.
C1_AttentionSumsToOneOverPairs ==
    (ret.op = "attentional_fm" /\ ret.attr_size >= 2) =>
        /\ ret.status = "ok"
        /\ Len(ret.attn_out) = NumInteractions(ret.attr_size)
        /\ FracIsOne(FracSum(ret.attn_out))

CorrVals == {-2, -1, 0, 1, 2}   \* entries of the centroid matrix
CorrDims == {1, 2}              \* its number of columns

\* tf.sqrt(x) for x >= 0, kept exact: the non-negative real whose square is x.
Sqrt(x) == [sq |-> x]
\* The product of two such reals.
SurdMul(a, b) == [sq |-> a.sq * b.sq]

Dot(u, v) == SumSeq([c \in 1..Len(u) |-> u[c] * v[c]])

\* tf.square(tf.matmul(m, m, transpose_b=True))
Numerator(m) ==
    [i \in 1..Len(m) |-> [j \in 1..Len(m) |-> Dot(m[i], m[j]) * Dot(m[i], m[j])]]

\* tf.reduce_sum(tf.square(m), axis=1, keepdims=True)
RowSqrSum(m) == [i \in 1..Len(m) |-> Dot(m[i], m[i])]

\* rss_sqrt = tf.sqrt(row_sqr_sum); tf.matmul(rss_sqrt, rss_sqrt,
\* transpose_b=True)
Denominator(m) ==
    [i \in 1..Len(m) |->
        [j \in 1..Len(m) |->
            SurdMul(Sqrt(RowSqrSum(m)[i]), Sqrt(RowSqrSum(m)[j]))]]

\* tf.truediv(numerator, denominator), entry by entry: the quotient of an
\* integer by a non-negative real given by its square.
CorrCost(m) ==
    [i \in 1..Len(m) |->
        [j \in 1..Len(m) |->
            [num |-> Numerator(m)[i][j], den |-> Denominator(m)[i][j]]]]

\* num / den = 1, for num an integer and den the real sqrt(den.sq).
QuotientIsOne(q) == q.den.sq > 0 /\ q.num >= 0 /\ q.num * q.num = q.den.sq

centroid_corr(centroid_mat) ==
    /\ ret' = [op |-> "centroid_corr", centroid_mat |-> centroid_mat,
               corr_cost |-> CorrCost(centroid_mat)]
    /\ UNCHANGED <<store, tensors, used>>

InitCorr ==
    /\ store = [k \in Keys |-> NoVar]
    /\ tensors = {}
    /\ used = {}
    /\ \E c \in 1..MaxCentroid, d \in CorrDims :
         \E m \in [1..c -> [1..d -> CorrVals]] :
            ret = [op |-> "args", centroid_mat |-> m]

NextCorr ==
    /\ ret.op = "args"
    /\ centroid_corr(ret.centroid_mat)

SpecCorr == InitCorr /\ [][NextCorr]_vars

\* C2: for every centroid matrix whose rows are all non-zero, rows of norm
\* other than 1 included, every diagonal entry of centroid_corr's result is 1.
C2_DiagonalIsOne ==
    (/\ ret.op = "centroid_corr"
     /\ \A i \in 1..Len(ret.centroid_mat) :
           \E c \in DOMAIN ret.centroid_mat[i] : ret.centroid_mat[i][c] # 0)
    => \A i \in 1..Len(ret.centroid_mat) : QuotientIsOne(ret.corr_cost[i][i])

(***************************************************************************)
(* gatnet and gat_attn_head                                                *)
(*                                                                         *)
(* A tensor is its static shape; <<-1>> (Err) is the shape of a tensor the *)
(* build refused to make.  The attention tensor also carries whether its   *)
(* rows are a softmax's output (each sums to 1).                           *)
(***************************************************************************)
MaskMagnitude == 1000000000     \* the 1e9 of bias_mat
GatEmbDims == {2}               \* d, the width of embedding_mat
GatHidDims == {2, 3}            \* hid_rep_dim
DropRates == {0, 20}            \* dropout rates, in percent
IndexRanks == {1, 2}            \* input_indices is (b) or (b, 1)

\* tf.nn.embedding_lookup(params, ids): ids' shape, then params' row shape.
EmbeddingLookup(params, ids) ==
    IF IsErr(params) \/ IsErr(ids) THEN Err ELSE ids \o Tail(params)

\* tf.transpose(a, perm): perm must have as many entries as a has
\* dimensions; dimension i of the result is dimension perm[i] of a.
Transpose(s, perm) ==
    IF IsErr(s) \/ Len(perm) # Len(s) THEN Err
    ELSE [i \in 1..Len(s) |-> s[perm[i] + 1]]

\* tf.concat(values, axis=-1) of equally shaped tensors.
Concat(shapes) ==
    IF shapes = <<>> \/ \E i \in 1..Len(shapes) : IsErr(shapes[i]) THEN Err
    ELSE [shapes[1] EXCEPT ![Len(shapes[1])] =
             SumSeq([i \in 1..Len(shapes) |-> shapes[i][Len(shapes[i])]])]

\* tf.layers.conv1d(inputs, filters, 1): the input must have rank 3
\* (batch, length, channels).
Conv1D(s, filters) ==
    IF IsErr(s) \/ Len(s) # 3 THEN Err ELSE [s EXCEPT ![3] = filters]

\* tf.layers.dropout(x, rate, training): the shape stays; where it is applied
\* and active, entries are zeroed or scaled by 1/(1-rate).
DropoutActive(rate, is_training) == rate # 0 /\ is_training

gat_attn_head(input_indices, emb_lookup, output_size, bias_mat, is_training, head_id, ft_drop, coef_drop) ==
    LET \* dropout of the table (ft_drop) keeps its shape
        hid_emb_lookup == Dense(emb_lookup, output_size)
        b_hid_emb == EmbeddingLookup(hid_emb_lookup, input_indices)
        f_1 == Dense(b_hid_emb, 1)
        f_2 == Dense(hid_emb_lookup, 1)
        f_2t == Transpose(f_2, <<0, 2, 1>>)
        logits == Broadcast(f_1, f_2t)
        coefs == Broadcast(logits, bias_mat)
        vals == MatMul(coefs, hid_emb_lookup)
    IN [head_id |-> head_id,
        status |-> IF IsErr(vals) THEN "ValueError" ELSE "ok",
        f_1 |-> f_1, f_2 |-> f_2, logits |-> logits,
        coefs |-> [shape |-> coefs,
                   rows_sum_to_one |->
                       ~IsErr(coefs) /\ ~DropoutActive(coef_drop, is_training)],
        ret |-> vals]

\* for i in range(n_heads): one head after the other; the first head that
\* raises ends the loop (and gatnet).
RECURSIVE HeadLoop(_, _, _, _, _, _, _, _, _)
HeadLoop(i, n_heads, input_indices, emb_lookup, output_size, bias_mat, is_training, ft_drop, coef_drop) ==
    IF i >= n_heads THEN <<>>
    ELSE LET h == gat_attn_head(input_indices, emb_lookup, output_size,
                                bias_mat, is_training, i, ft_drop, coef_drop)
         IN IF h.status # "ok" THEN <<h>>
            ELSE <<h>> \o HeadLoop(i + 1, n_heads, input_indices, emb_lookup,
                                   output_size, bias_mat, is_training,
                                   ft_drop, coef_drop)

\* bias_mat = -1e9 * (1 - tf.cast(adj_mat, tf.float32))
BiasMat(adj_mat) ==
    [b \in 1..Len(adj_mat) |->
        [j \in 1..Len(adj_mat[b]) |-> (0 - MaskMagnitude) * (1 - adj_mat[b][j])]]

ShapeOf(mat) == <<Len(mat), Len(mat[1])>>

gatnet(embedding_mat, adj_mat, input_indices, hid_rep_dim, is_training, n_heads, ft_drop, attn_drop) ==
    LET bias_mat == BiasMat(adj_mat)
        heads == HeadLoop(0, n_heads, input_indices, embedding_mat,
                          hid_rep_dim, ShapeOf(bias_mat), is_training,
                          ft_drop, attn_drop)
        done == {i \in 1..Len(heads) : heads[i].status = "ok"}
        raised == \E i \in 1..Len(heads) : heads[i].status # "ok"
        h_1 == IF raised THEN Err
               ELSE Concat([i \in 1..Len(heads) |-> heads[i].ret])
        logits == Conv1D(h_1, hid_rep_dim)
    IN
    /\ ret' = [op |-> "gatnet", adj_mat |-> adj_mat,
               embedding_mat |-> embedding_mat,
               input_indices |-> input_indices, hid_rep_dim |-> hid_rep_dim,
               n_heads |-> n_heads, bias_mat |-> bias_mat,
               head_calls |-> [i \in 1..Len(heads) |->
                                 [head_id |-> heads[i].head_id,
                                  bias_mat |-> bias_mat,
                                  status |-> heads[i].status,
                                  logits |-> heads[i].logits]],
               status |-> IF IsErr(logits) THEN "ValueError" ELSE "ok",
               logits |-> logits,
               attns |-> IF IsErr(logits) THEN <<>>
                         ELSE [i \in 1..Len(heads) |->
                                 [head_id |-> heads[i].head_id,
                                  shape |-> heads[i].coefs.shape,
                                  rows_sum_to_one |->
                                      heads[i].coefs.rows_sum_to_one]]]
    /\ UNCHANGED <<store, tensors, used>>

InitGAT ==
    /\ store = [k \in Keys |-> NoVar]
    /\ tensors = {}
    /\ used = {}
    /\ \E b \in 1..MaxBatch, n \in 1..MaxNodes, d \in GatEmbDims,
          oz \in GatHidDims, heads \in 1..MaxHeads, r \in IndexRanks,
          fd \in DropRates, ad \in DropRates, tr \in BOOLEAN :
         \E adj \in [1..b -> [1..n -> {0, 1}]] :
            ret = [op |-> "args", embedding_mat |-> <<n, d>>, adj_mat |-> adj,
                   input_indices |-> IF r = 1 THEN <<b>> ELSE <<b, 1>>,
                   hid_rep_dim |-> oz, is_training |-> tr, n_heads |-> heads,
                   ft_drop |-> fd, attn_drop |-> ad]

NextGAT ==
    /\ ret.op = "args"
    /\ gatnet(ret.embedding_mat, ret.adj_mat, ret.input_indices,
              ret.hid_rep_dim, ret.is_training, ret.n_heads, ret.ft_drop,
              ret.attn_drop)

SpecGAT == InitGAT /\ [][NextGAT]_vars

\* C6: every attention distribution gat_attn_head returns (and gatnet
\* collects, one per head) is a (batch, n) tensor whose rows each sum to 1,
\* for every setting of ft_drop, coef_drop and the training flag.
C6_AttentionRowsSumToOne ==
    ret.op = "gatnet" =>
        /\ Len(ret.attns) = ret.n_heads
        /\ \A i \in 1..Len(ret.attns) :
              /\ ret.attns[i].shape = ShapeOf(ret.adj_mat)
              /\ ret.attns[i].rows_sum_to_one

\* C8: the bias mask has the adjacency matrix's shape, is 0 where the
\* adjacency entry is 1 and -1e9 where it is 0, is passed unchanged to every
\* one of the n_heads heads, and gatnet returns exactly n_heads attention
\* distributions in head order 0..n_heads-1.
C8_MaskAndHeadOrder ==
    ret.op = "gatnet" =>
        /\ ShapeOf(ret.bias_mat) = ShapeOf(ret.adj_mat)
        /\ \A b \in 1..Len(ret.adj_mat) : \A j \in 1..Len(ret.adj_mat[b]) :
              ret.bias_mat[b][j] =
                  (IF ret.adj_mat[b][j] = 1 THEN 0 ELSE 0 - MaskMagnitude)
        /\ Len(ret.head_calls) = ret.n_heads
        /\ \A i \in 1..Len(ret.head_calls) :
              /\ ret.head_calls[i].head_id = i - 1
              /\ ret.head_calls[i].bias_mat = ret.bias_mat
        /\ ret.status = "ok"
        /\ Len(ret.attns) = ret.n_heads
        /\ \A i \in 1..Len(ret.attns) : ret.attns[i].head_id = i - 1

\* C10: with the documented shapes (embedding table (n, d), bias mask
\* (batch, n), query indices (batch)) every head builds, its raw logits have
\* shape (batch, n), and gatnet's final projection has shape
\* (batch, output_size).
C10_HeadBuildsWithDocumentedShapes ==
    (ret.op = "gatnet" /\ Len(ret.input_indices) = 1) =>
        /\ Len(ret.head_calls) = ret.n_heads
        /\ \A i \in 1..Len(ret.head_calls) :
              /\ ret.head_calls[i].status = "ok"
              /\ ret.head_calls[i].logits = ShapeOf(ret.adj_mat)
        /\ ret.status = "ok"
        /\ ret.logits = <<Len(ret.adj_mat), ret.hid_rep_dim>>

=============================================================================
